---- MODULE Spec2Model ----
(***************************************************************************)
(* Template Resolution Engine of yankeeinlondon/gha (TemplateResolver).    *)
(*                                                                         *)
(* A resolution call is a tree of suspended async calls (jobs).  The only  *)
(* point where a call really suspends is the file read inside              *)
(* parser.parseFile; everything between two read completions runs as one   *)
(* uninterrupted burst of the event loop, in program order.  The order in  *)
(* which pending reads complete is chosen by the environment.              *)
(***************************************************************************)
EXTENDS Integers, Sequences, FiniteSets, TLC

\* ------------------------------------------------------------------ bounds
\* A new top-level call starts only while at most MaxStale jobs of earlier
\* calls are still running.
MaxStale == 1
\* options.maxDepth is drawn from 0 .. MaxDepthOption (0 stands for "unset").
MaxDepthOption == 2

\* ------------------------------------------------------- program constants
\* this.maxDepth = options.maxDepth || 10
DefaultMaxDepth == 10

\* ------------------------------------------------------------ generic nodes
\* A textual scalar is a sequence of tokens: "$", "{", "}", "." and words.
Str(s) == [t |-> "str", s |-> s]
Null == [t |-> "null"]
Undefined == [t |-> "undefined"]
SeqNode(items) == [t |-> "seq", items |-> items]
MapNode(keys, vals) == [t |-> "map", keys |-> keys, vals |-> vals]
EmptyMap == MapNode(<<>>, <<>>)
\* !ref / !template construct {type: 'reference', path, params}
TemplateReference(p, params) == [t |-> "reference", path |-> p, params |-> params]
\* !include constructs {type: 'inclusion', path, merge: false}
TemplateInclusion(p, m) == [t |-> "inclusion", path |-> p, merge |-> m]
\* The content of a path that cannot be read.
Missing == [t |-> "missing"]
\* A number, and a built-in function such as Object or Object.prototype.toString.
Num(n) == [t |-> "num", n |-> n]
Function(name) == [t |-> "function", name |-> name]
\* Object.prototype itself, the value of the __proto__ accessor of a plain object.
ObjectPrototype == [t |-> "prototype"]

Range(s) == {s[i] : i \in 1 .. Len(s)}

HasKey(m, k) == \E i \in 1 .. Len(m.keys) : m.keys[i] = k
KeyIndex(m, k) == CHOOSE i \in 1 .. Len(m.keys) : m.keys[i] = k
Get(m, k) == m.vals[KeyIndex(m, k)]
\* obj[k] = v on an object with insertion-ordered keys
Put(m, k, v) ==
    IF HasKey(m, k)
    THEN [m EXCEPT !.vals[KeyIndex(m, k)] = v]
    ELSE MapNode(Append(m.keys, k), Append(m.vals, v))

RECURSIVE SpreadFrom(_, _, _)
SpreadFrom(a, b, i) ==
    IF i > Len(b.keys) THEN a
    ELSE SpreadFrom(Put(a, b.keys[i], b.vals[i]), b, i + 1)
\* { ...a, ...b }
Spread(a, b) == SpreadFrom(a, b, 1)

\* ------------------------------------------------------------------- paths
\* All fragments live in the base directory: "A" is the relative spelling of
\* the file whose absolute path is "/A".
RelPaths == {"A", "B", "C", "D"}
AbsOf == ("A" :> "/A") @@ ("B" :> "/B") @@ ("C" :> "/C") @@ ("D" :> "/D")
AbsPaths == {AbsOf[p] : p \in RelPaths}
isAbsolute(p) == p \in AbsPaths
\* path.resolve(this.baseDir, p)
pathResolve(p) == IF isAbsolute(p) THEN p ELSE AbsOf[p]
\* resolvePath: relative to the directory of the current file, which is the
\* base directory for every file of the model.
resolvePath(refPath, context) ==
    IF isAbsolute(refPath) THEN refPath ELSE pathResolve(refPath)

\* --------------------------------------------------------- interpolation
RECURSIVE JoinWith(_, _)
JoinWith(parts, sep) ==
    IF Len(parts) = 0 THEN <<>>
    ELSE IF Len(parts) = 1 THEN <<parts[1]>>
    ELSE <<parts[1], sep>> \o JoinWith(Tail(parts), sep)

RECURSIVE ToStringTokens(_)
\* String(value)
ToStringTokens(value) ==
    IF value.t = "str" THEN value.s
    ELSE IF value.t = "null" THEN <<"null">>
    ELSE IF value.t = "num" THEN <<ToString(value.n)>>
    ELSE IF value.t = "function"
    THEN <<"function ", value.name, "() { [native code] }">>
    ELSE IF value.t = "seq"
    THEN IF Len(value.items) = 0 THEN <<>>
         ELSE ToStringTokens(value.items[1])
              \o (IF Len(value.items) > 1
                  THEN <<",">> \o ToStringTokens(SeqNode(Tail(value.items)))
                  ELSE <<>>)
    ELSE <<"[object Object]">>

RECURSIVE SplitDots(_, _)
\* path.split('.'): the parts, each a sequence of tokens
SplitDots(tokens, cur) ==
    IF Len(tokens) = 0 THEN <<cur>>
    ELSE IF Head(tokens) = "." THEN <<cur>> \o SplitDots(Tail(tokens), <<>>)
    ELSE SplitDots(Tail(tokens), Append(cur, Head(tokens)))

\* Properties every plain object inherits from Object.prototype (the ones the
\* inputs name; there are more), and the array indexes the inputs name.
ObjectPrototypeMethods == {"constructor", "toString", "valueOf", "hasOwnProperty"}
IndexOf == ("0" :> 1) @@ ("1" :> 2) @@ ("2" :> 3)

\* value && typeof value === 'object' && part in value
In(part, value) ==
    IF value.t \in {"map", "prototype"}
    THEN \/ value.t = "map" /\ HasKey(value, part)
         \/ part \in ObjectPrototypeMethods \cup {"__proto__"}
    ELSE IF value.t = "seq"
    THEN \/ part \in DOMAIN IndexOf /\ IndexOf[part] <= Len(value.items)
         \/ part = "length"
         \/ part \in ObjectPrototypeMethods \cup {"__proto__"}
    ELSE FALSE

\* value[part], for a part that is in value
Member(value, part) ==
    IF value.t = "map" /\ HasKey(value, part) THEN Get(value, part)
    ELSE IF value.t = "seq" /\ part \in DOMAIN IndexOf THEN value.items[IndexOf[part]]
    ELSE IF value.t = "seq" /\ part = "length" THEN Num(Len(value.items))
    ELSE IF part = "__proto__"
    THEN (IF value.t = "map" THEN ObjectPrototype
          ELSE IF value.t = "seq" THEN SeqNode(<<>>)
          ELSE Null)
    ELSE IF part = "constructor"
    THEN Function(IF value.t = "seq" THEN "Array" ELSE "Object")
    ELSE Function(part)

RECURSIVE Walk(_, _)
Walk(value, parts) ==
    IF Len(parts) = 0 THEN value
    ELSE IF Len(Head(parts)) = 1 /\ In(Head(parts)[1], value)
    THEN Walk(Member(value, Head(parts)[1]), Tail(parts))
    ELSE Undefined

getVariableValue(path, variables) == Walk(variables, SplitDots(path, <<>>))

\* Index of the first "}" at or after position from, 0 when there is none.
CloseAt(str, from) ==
    IF \E j \in from .. Len(str) : str[j] = "}"
    THEN CHOOSE j \in from .. Len(str) :
            str[j] = "}" /\ \A k \in from .. j - 1 : str[k] # "}"
    ELSE 0

RECURSIVE ReplaceFrom(_, _, _)
\* str.replace(/\$\{([^}]+)\}/g, ...) scanning from position i
ReplaceFrom(str, i, variables) ==
    IF i > Len(str) THEN <<>>
    ELSE IF str[i] = "$" /\ i + 1 <= Len(str) /\ str[i + 1] = "{"
            /\ CloseAt(str, i + 2) > i + 2
    THEN LET j == CloseAt(str, i + 2)
             value == getVariableValue(SubSeq(str, i + 2, j - 1), variables)
         IN (IF value # Undefined THEN ToStringTokens(value) ELSE SubSeq(str, i, j))
            \o ReplaceFrom(str, j + 1, variables)
    ELSE <<str[i]>> \o ReplaceFrom(str, i + 1, variables)

\* Faulty variant of interpolateString: placeholders are never substituted.
interpolateStringVerbatim(str, context) == str

interpolateString(str, context) == ReplaceFrom(str, 1, context.variables)


\* ------------------------------------------------------------------- state
VARIABLES
    files,       \* the fragment files: absolute path -> parsed content, or Missing
    opts,        \* ResolverOptions given to the constructor: cache, maxDepth, variables
    cache,       \* this.cache: absolute path -> resolved node
    call,        \* the current top-level call: its root and context arguments
    main,        \* the job tree of the current top-level call, or its settled outcome
    orphans,     \* jobs of the current call still running after a Promise.all rejected
    stale,       \* jobs of earlier calls that are still running
    parseCount,  \* call-count stub: parser.parseFile invocations per path in this call
    refFailed,   \* whether a catch block of resolveReference/resolveInclusion ran in this call
    pure,        \* a call of a synchronous function: its name, arguments and outcome
    gen,         \* a WorkflowGenerator.generate call: its position and its BuildResult
    fs,          \* what the generator sees on disk: sources, their resolution, outputs
    runner,      \* an ActRunner: its tracked sets and its run calls in flight
    os,          \* what the runner's calls act on: child processes, temp directories
    watcher      \* the watch command: its isBuilding flag, its build, the watched files

resolverVars == <<files, opts, cache, call, main, orphans, stale, parseCount, refFailed>>
generatorVars == <<gen, fs>>
runnerVars == <<runner, os>>
watchVars == <<watcher>>
vars == <<resolverVars, pure, generatorVars, runnerVars, watchVars>>

\* this.maxDepth = options.maxDepth || 10
maxDepth == IF opts.maxDepth = 0 THEN DefaultMaxDepth ELSE opts.maxDepth

\* ------------------------------------------------------------------ errors
NoReferencePath == "undefined"

ResolutionError(message, file, referencePath) ==
    [name |-> "ResolutionError", message |-> <<file, ": ">> \o message,
     file |-> file, referencePath |-> referencePath, cycle |-> <<>>]

CircularDependencyError(cycle) ==
    [name |-> "CircularDependencyError",
     message |-> <<cycle[1], ": ", "Circular dependency detected: ">> \o JoinWith(cycle, " -> "),
     file |-> cycle[1], referencePath |-> NoReferencePath, cycle |-> cycle]

ParserError(message, file) ==
    [name |-> "ParserError", message |-> <<file, ": ">> \o message,
     file |-> file, referencePath |-> NoReferencePath, cycle |-> <<>>]

\* Faulty variant of DepthMessage: reports the default limit, not the configured one.
DepthMessageDefault == <<"Maximum recursion depth (", ToString(DefaultMaxDepth), ") exceeded">>

DepthMessage == <<"Maximum recursion depth (", ToString(maxDepth), ") exceeded">>

\* Faulty variant of DepthExceeded: off by one.
DepthExceededAtLimit(context) == Len(context.fileStack) >= maxDepth

\* context.fileStack.length > this.maxDepth
DepthExceeded(context) == Len(context.fileStack) > maxDepth

\* -------------------------------------------------------------------- jobs
\* A job is a settled promise (val, err) or a suspended async call.
Val(v) == [j |-> "val", v |-> v]
Err(e) == [j |-> "err", e |-> e]
NoJob == [j |-> "none"]
Settled(job) == job.j \in {"val", "err"}
\* The result of running code: the job it leaves and the world it leaves.
Out(job, w) == [job |-> job, w |-> w]

\* parser.parseFile(filePath) is invoked: the read of the file is now pending.
parseFile(filePath, absolutePath, ctx, w) ==
    Out([j |-> "parseFile", filePath |-> filePath, absolutePath |-> absolutePath, ctx |-> ctx],
        [w EXCEPT !.parseCount[pathResolve(filePath)] = @ + 1])

\* Faulty variant of OnStack: one visited set shared by every branch of the call.
OnStackVisited(fileStack, absolutePath, w) ==
    absolutePath \in Range(fileStack) \/ w.parseCount[absolutePath] > 0

\* ctx.fileStack.includes(absolutePath)
OnStack(fileStack, absolutePath, w) == absolutePath \in Range(fileStack)

\* resolveFile up to its first await: cache lookup, context, cycle check.
resolveFile(filePath, context, w) ==
    LET absolutePath == pathResolve(filePath)
        ctx == [currentFile |-> filePath,
                fileStack |-> context.fileStack,
                cache |-> context.cache,
                variables |-> Spread(opts.variables, context.variables)]
    IN  IF opts.cache /\ absolutePath \in DOMAIN w.cache
        THEN Out(Val(w.cache[absolutePath]), w)
        ELSE IF OnStack(ctx.fileStack, absolutePath, w)
        THEN Out(Err(CircularDependencyError(Append(ctx.fileStack, absolutePath))), w)
        ELSE parseFile(filePath, absolutePath, ctx, w)

\* The context resolveFile hands to resolveContent.
ContentContext(ctx, absolutePath) ==
    [ctx EXCEPT !.fileStack = Append(ctx.fileStack, absolutePath)]

\* resolveFile after resolveContent settled: cache the result and return it.
resolveFileDone(absolutePath, r) ==
    IF r.job.j = "val"
    THEN Out(r.job, IF opts.cache
                    THEN [r.w EXCEPT !.cache = (absolutePath :> r.job.v) @@ @]
                    ELSE r.w)
    ELSE IF r.job.j = "err" THEN r
    ELSE Out([j |-> "resolveFile", absolutePath |-> absolutePath, body |-> r.job], r.w)

\* Faulty variant of CatchReference: the message of the caught error is dropped.
CatchReferenceBare(refPath, file, error, w) ==
    Out(Err(ResolutionError(<<"Failed to resolve reference '", refPath, "': ">>,
                            file, refPath)),
        [w EXCEPT !.refFailed = TRUE])

\* The catch block of resolveReference.
CatchReference(refPath, file, error, w) ==
    Out(Err(ResolutionError(<<"Failed to resolve reference '", refPath, "': ">> \o error.message,
                            file, refPath)),
        [w EXCEPT !.refFailed = TRUE])

\* Faulty variant of CatchInclusion: the error is swallowed and null is spliced in.
CatchInclusionSwallow(incPath, file, error, w) ==
    Out(Val(Null), [w EXCEPT !.refFailed = TRUE])

\* The catch block of resolveInclusion.
CatchInclusion(incPath, file, error, w) ==
    Out(Err(ResolutionError(<<"Failed to include '", incPath, "': ">> \o error.message,
                            file, incPath)),
        [w EXCEPT !.refFailed = TRUE])

\* resolveReference / resolveInclusion once the awaited resolveFile settled.
AwaitFile(kind, refPath, file, r) ==
    IF r.job.j = "val" THEN r
    ELSE IF r.job.j = "err"
    THEN IF kind = "reference"
         THEN CatchReference(refPath, file, r.job.e, r.w)
         ELSE CatchInclusion(refPath, file, r.job.e, r.w)
    ELSE Out([j |-> "await", kind |-> kind, path |-> refPath, file |-> file, inner |-> r.job], r.w)

\* The context a Reference resolves its target under.
RefContext(ref, context) ==
    [context EXCEPT !.currentFile = resolvePath(ref.path, context),
                    !.variables = Spread(context.variables, ref.params)]

resolveReference(ref, context, w) ==
    AwaitFile("reference", ref.path, context.currentFile,
              resolveFile(resolvePath(ref.path, context), RefContext(ref, context), w))

\* Faulty variant of resolveInclusion: the target is resolved under the
\* variables of the resolver options alone.
resolveInclusionFreshVariables(inc, context, w) ==
    AwaitFile("inclusion", inc.path, context.currentFile,
              resolveFile(resolvePath(inc.path, context),
                          [context EXCEPT !.variables = opts.variables], w))

resolveInclusion(inc, context, w) ==
    AwaitFile("inclusion", inc.path, context.currentFile,
              resolveFile(resolvePath(inc.path, context), context, w))

isTemplateReference(value) == value.t = "reference"
\* Faulty variant of isTemplateInclusion: inclusions are not recognised.
isTemplateInclusionNever(value) == FALSE

isTemplateInclusion(value) == value.t = "inclusion"

\* Promise.all over the element promises: it rejects with the first rejection,
\* and the elements still pending keep running with nobody awaiting them.
\* Elements rejected in the same burst reject in index order.
promiseAll(jobs, w) ==
    LET n == Len(jobs)
        rejected == {i \in 1 .. n : jobs[i].j = "err"}
        pending == SelectSeq(jobs, LAMBDA job : ~Settled(job))
    IN  IF rejected # {}
        THEN Out(jobs[CHOOSE i \in rejected : \A k \in rejected : i <= k],
                 [w EXCEPT !.orphans = @ \o pending])
        ELSE IF Len(pending) = 0
        THEN Out(Val(SeqNode([i \in 1 .. n |-> jobs[i].v])), w)
        ELSE Out([j |-> "Promise.all", items |-> jobs], w)

RECURSIVE resolveContent(_, _, _)
RECURSIVE mapItems(_, _, _, _)
RECURSIVE resolveEntries(_, _, _, _, _)

\* content.map(item => this.resolveContent(item, context)): every element is
\* started, in index order, before any of them is awaited.
mapItems(items, context, w, started) ==
    IF Len(started) = Len(items) THEN [jobs |-> started, w |-> w]
    ELSE LET r == resolveContent(items[Len(started) + 1], context, w)
         IN  mapItems(items, context, r.w, Append(started, r.job))

\* for (const [key, value] of Object.entries(content)) resolved[key] = await ...
resolveEntries(keys, vals, resolved, context, w) ==
    IF Len(resolved) = Len(keys) THEN Out(Val(MapNode(keys, resolved)), w)
    ELSE LET r == resolveContent(vals[Len(resolved) + 1], context, w)
         IN  IF r.job.j = "val"
             THEN resolveEntries(keys, vals, Append(resolved, r.job.v), context, r.w)
             ELSE IF r.job.j = "err" THEN r
             ELSE Out([j |-> "entries", keys |-> keys, vals |-> vals, resolved |-> resolved,
                       context |-> context, cur |-> r.job], r.w)

resolveContent(content, context, w) ==
    IF DepthExceeded(context)
    THEN Out(Err(ResolutionError(DepthMessage, context.currentFile, NoReferencePath)), w)
    ELSE IF content.t = "null" THEN Out(Val(content), w)
    ELSE IF isTemplateReference(content) THEN resolveReference(content, context, w)
    ELSE IF isTemplateInclusion(content) THEN resolveInclusion(content, context, w)
    ELSE IF content.t = "seq"
    THEN LET m == mapItems(content.items, context, w, <<>>) IN promiseAll(m.jobs, m.w)
    ELSE IF content.t = "map"
    THEN resolveEntries(content.keys, content.vals, <<>>, context, w)
    ELSE IF content.t = "str"
    THEN Out(Val(Str(interpolateString(content.s, context))), w)
    ELSE Out(Val(content), w)

\* resolveFile once the pending read of its file completed.
resolveFileParsed(job, w) ==
    LET content == files[pathResolve(job.filePath)]
    IN  IF content = Missing
        THEN Out(Err(ParserError(<<"Failed to read file: ", "ENOENT">>, job.filePath)), w)
        ELSE resolveFileDone(job.absolutePath,
                 resolveContent(content, ContentContext(job.ctx, job.absolutePath), w))

RECURSIVE Pending(_)
\* The positions of the pending reads of a job tree.
Pending(job) ==
    IF job.j = "parseFile" THEN {<<>>}
    ELSE IF job.j = "resolveFile" THEN {<<1>> \o p : p \in Pending(job.body)}
    ELSE IF job.j = "await" THEN {<<1>> \o p : p \in Pending(job.inner)}
    ELSE IF job.j = "entries" THEN {<<1>> \o p : p \in Pending(job.cur)}
    ELSE IF job.j = "Promise.all"
    THEN UNION {{<<i>> \o p : p \in Pending(job.items[i])} : i \in 1 .. Len(job.items)}
    ELSE {}

RECURSIVE Complete(_, _, _)
\* The burst that follows the completion of the read at position pos.
Complete(job, pos, w) ==
    IF job.j = "parseFile" THEN resolveFileParsed(job, w)
    ELSE IF job.j = "resolveFile"
    THEN resolveFileDone(job.absolutePath, Complete(job.body, Tail(pos), w))
    ELSE IF job.j = "await"
    THEN AwaitFile(job.kind, job.path, job.file, Complete(job.inner, Tail(pos), w))
    ELSE IF job.j = "entries"
    THEN LET r == Complete(job.cur, Tail(pos), w)
         IN  IF r.job.j = "val"
             THEN resolveEntries(job.keys, job.vals, Append(job.resolved, r.job.v),
                                 job.context, r.w)
             ELSE IF r.job.j = "err" THEN r
             ELSE Out([job EXCEPT !.cur = r.job], r.w)
    ELSE LET r == Complete(job.items[Head(pos)], Tail(pos), w)
         IN  promiseAll([job.items EXCEPT ![Head(pos)] = r.job], r.w)


\* ------------------------------------------------------------------ inputs
StrV == Str(<<"$", "{", "v", "}">>)
Ref(p) == TemplateReference(p, EmptyMap)
RefWith(p, value) == TemplateReference(p, MapNode(<<"v">>, <<Str(<<value>>)>>))
Inc(p) == TemplateInclusion(p, FALSE)

MakeFiles(a, b, c, d) == ("/A" :> a) @@ ("/B" :> b) @@ ("/C" :> c) @@ ("/D" :> d)

\* Fragment graphs without a Sequence: chains, cycles, diamonds through a
\* Mapping, parameterised references next to plain ones.
SequentialGraphs ==
    { MakeFiles(a, b, c, d) :
        a \in { Ref("A"), Ref("B"), Inc("B"),
                MapNode(<<"x", "y">>, <<Ref("B"), Ref("C")>>),
                MapNode(<<"x", "y", "z">>, <<RefWith("D", "20"), Ref("D"), StrV>>) },
        b \in { Ref("C"), Ref("D"), Ref("A") },
        c \in { Ref("D"), Ref("A") },
        d \in { StrV, Ref("A"), Missing } }

\* Fragment graphs whose root file is a Sequence, resolved through Promise.all:
\* a diamond, the diamond with one or both branches closing a cycle, and one
\* file referenced with two different params.
ConcurrentGraphs ==
    { MakeFiles(SeqNode(<<Ref("B"), Ref("C")>>), b, Ref("D"), StrV) :
        b \in { Ref("D"), Ref("A") } }
    \cup { MakeFiles(SeqNode(<<Ref("B"), Ref("C")>>), Ref("A"), Ref("A"), StrV) }
    \cup { MakeFiles(SeqNode(<<RefWith("D", "20"), RefWith("D", "30")>>),
                     Ref("D"), Ref("D"), StrV) }

\* Two files that hold the same Reference and are themselves referenced with
\* different params.
InheritedGraphs ==
    { MakeFiles(MapNode(<<"x", "y">>, <<RefWith("B", "20"), RefWith("C", "30")>>),
                Ref("D"), Ref("D"), StrV) }

\* A fragment without Reference or Inclusion: scalars with and without
\* placeholders, null, a Sequence, a nested Mapping.
PlainTree ==
    MapNode(<<"m", "n", "o">>,
            <<StrV, SeqNode(<<Str(<<"a">>), Null, StrV>>),
              MapNode(<<"p">>, <<Str(<<"$", "{", "u", "}">>)>>)>>)

\* A Mapping that holds an Inclusion with merge = true next to a key of its own.
MergeRoot == MapNode(<<"k", "inc">>, <<Str(<<"a">>), TemplateInclusion("D", TRUE)>>)

PlainGraphs == { MakeFiles(MergeRoot, Ref("D"), Ref("D"), PlainTree) }

\* A Mapping that holds an Inclusion with merge = false next to a Reference
\* with params to another file.
IncludeRoot == MapNode(<<"p", "inc">>, <<RefWith("B", "20"), Inc("D")>>)

\* Inclusions of a Scalar, a Sequence and a Mapping, from the root and from a
\* file that is itself referenced with params.
InclusionGraphs ==
    { MakeFiles(IncludeRoot, StrV, StrV, d) : d \in {StrV, SeqNode(<<StrV, Null>>), PlainTree} }
    \cup { MakeFiles(RefWith("B", "20"), Inc("D"), StrV, PlainTree) }

\* The variables argument of resolveWorkflow / resolveJob / resolveStep.
CallVariables == { MapNode(<<"v">>, <<Str(<<"1">>)>>) }

NoCall == [root |-> "", cacheArg |-> "", variables |-> EmptyMap]
ZeroCount == [p \in AbsPaths |-> 0]
NotRun == [j |-> "none"]
NoPure == [op |-> "none", args |-> <<>>, out |-> NotRun]
\* No generate call is under way and nothing of the disk is looked at.
NoGen == [pc |-> "none"]
NoFs == [exists |-> FALSE]
\* No ActRunner was constructed.
NoRunner == [processes |-> {}, tempDirs |-> {}]
NoOs == [dirs |-> {}]
NoWatcher == [pc |-> "none"]

Init ==
    /\ files \in SequentialGraphs \cup ConcurrentGraphs \cup InheritedGraphs \cup PlainGraphs
                 \cup InclusionGraphs
    /\ opts \in [cache : BOOLEAN, maxDepth : 0 .. MaxDepthOption, variables : {EmptyMap}]
    /\ cache = << >>
    /\ call = NoCall
    /\ main = NoJob
    /\ orphans = <<>>
    /\ stale = <<>>
    /\ parseCount = ZeroCount
    /\ refFailed = FALSE
    /\ pure = NoPure
    /\ gen = NoGen
    /\ fs = NoFs
    /\ runner = NoRunner
    /\ os = NoOs
    /\ watcher = NoWatcher

\* ----------------------------------------------------------------- actions
\* A top-level call starts: the caller awaited the previous one.  cacheArg is
\* the cache member of the context argument, which resolveFile stores in ctx
\* and never consults.  Jobs an earlier call left running go on next to the
\* new call; with caching off they write nothing the resolver reads again
\* (lines 123-125 are skipped), so they are followed only with caching on.
Start(filePath, context) ==
    /\ Len(stale) + Len(orphans) <= MaxStale
    /\ main.j \in {"none", "val", "err"}
    /\ LET r == resolveFile(filePath, context,
                    [cache |-> cache, parseCount |-> ZeroCount,
                     orphans |-> <<>>, refFailed |-> FALSE])
       IN  /\ main' = r.job
           /\ cache' = r.w.cache
           /\ parseCount' = r.w.parseCount
           /\ refFailed' = r.w.refFailed
           /\ orphans' = r.w.orphans
    /\ call' = [root |-> filePath, cacheArg |-> context.cache,
                variables |-> context.variables]
    /\ stale' = IF opts.cache THEN stale \o orphans ELSE <<>>
    /\ UNCHANGED <<files, opts, pure, generatorVars, runnerVars, watchVars>>

\* resolver.resolveFile(filePath) with no context argument
ResolveFile ==
    \E filePath \in RelPaths :
        Start(filePath, [fileStack |-> <<>>, cache |-> "this.cache", variables |-> EmptyMap])

\* The context resolveWorkflow, resolveJob and resolveStep build.
EntryContext(variables) ==
    [fileStack |-> <<>>, cache |-> "new Map()", variables |-> variables]

\* "A" is the workflow fragment, "B" and "C" are job fragments and "D" is a
\* step fragment: each typed entry point is called on fragments of its type.
ResolveWorkflow ==
    \E filePath \in {"A"}, variables \in CallVariables :
        Start(filePath, EntryContext(variables))

ResolveJob ==
    \E filePath \in {"B", "C"}, variables \in CallVariables :
        Start(filePath, EntryContext(variables))

ResolveStep ==
    \E filePath \in {"D"}, variables \in CallVariables :
        Start(filePath, EntryContext(variables))

\* Jobs nobody awaits are dropped once they settle.
Running(jobs) == SelectSeq(jobs, LAMBDA job : ~Settled(job))

\* A pending read completes and the code waiting for it runs: in the call's
\* own tree, in a job orphaned by this call, or in one left by an earlier call.
CompleteRead ==
    \/ \E pos \in Pending(main) :
          LET r == Complete(main, pos, [cache |-> cache, parseCount |-> parseCount,
                                       orphans |-> orphans, refFailed |-> refFailed])
          IN  /\ main' = r.job
              /\ cache' = r.w.cache
              /\ parseCount' = r.w.parseCount
              /\ refFailed' = r.w.refFailed
              /\ orphans' = r.w.orphans
              /\ UNCHANGED <<files, opts, call, stale, pure, generatorVars, runnerVars, watchVars>>
    \/ \E k \in 1 .. Len(orphans) : \E pos \in Pending(orphans[k]) :
          LET r == Complete(orphans[k], pos, [cache |-> cache, parseCount |-> parseCount,
                                             orphans |-> orphans, refFailed |-> refFailed])
          IN  /\ orphans' = Running([r.w.orphans EXCEPT ![k] = r.job])
              /\ cache' = r.w.cache
              /\ parseCount' = r.w.parseCount
              /\ refFailed' = r.w.refFailed
              /\ UNCHANGED <<files, opts, call, main, stale, pure, generatorVars, runnerVars, watchVars>>
    \/ \E k \in 1 .. Len(stale) : \E pos \in Pending(stale[k]) :
          LET r == Complete(stale[k], pos, [cache |-> cache, parseCount |-> parseCount,
                                           orphans |-> stale, refFailed |-> refFailed])
          IN  /\ stale' = Running([r.w.orphans EXCEPT ![k] = r.job])
              /\ cache' = r.w.cache
              /\ UNCHANGED <<files, opts, call, main, orphans, parseCount, refFailed, pure, generatorVars, runnerVars, watchVars>>

\* resolver.clearCache(), called between two calls
ClearCache ==
    /\ main.j \in {"val", "err"}
    /\ DOMAIN cache # {}
    /\ cache' = << >>
    /\ UNCHANGED <<files, opts, call, main, orphans, stale, parseCount, refFailed, pure, generatorVars, runnerVars, watchVars>>

Next ==
    \/ ResolveFile
    \/ ResolveWorkflow
    \/ ResolveJob
    \/ ResolveStep
    \/ CompleteRead
    \/ ClearCache

Spec == Init /\ [][Next]_vars

\* --------------------------------------------------------------- deepMerge
\* deepMerge works on JavaScript objects, which have identity: the heap is the
\* sequence of the objects allocated so far, an object is a Mapping or a
\* Sequence whose children are scalars or references Obj(id) to other objects.
Obj(id) == [t |-> "obj", id |-> id]

RECURSIVE Alloc(_, _)
RECURSIVE AllocAll(_, _, _)
\* The objects of a tree, allocated bottom-up: the value that stands for the
\* tree and the heap that holds it.
Alloc(tree, heap) ==
    IF tree.t = "seq"
    THEN LET r == AllocAll(tree.items, heap, <<>>)
         IN  [v |-> Obj(Len(r.heap) + 1), heap |-> Append(r.heap, SeqNode(r.vs))]
    ELSE IF tree.t = "map"
    THEN LET r == AllocAll(tree.vals, heap, <<>>)
         IN  [v |-> Obj(Len(r.heap) + 1), heap |-> Append(r.heap, MapNode(tree.keys, r.vs))]
    ELSE [v |-> tree, heap |-> heap]

AllocAll(trees, heap, done) ==
    IF Len(done) = Len(trees) THEN [vs |-> done, heap |-> heap]
    ELSE LET r == Alloc(trees[Len(done) + 1], heap)
         IN  AllocAll(trees, r.heap, Append(done, r.v))

RECURSIVE Deref(_, _)
\* The tree a value stands for.
Deref(v, heap) ==
    IF v.t # "obj" THEN v
    ELSE LET o == heap[v.id]
         IN  IF o.t = "seq"
             THEN SeqNode([i \in 1 .. Len(o.items) |-> Deref(o.items[i], heap)])
             ELSE MapNode(o.keys, [i \in 1 .. Len(o.vals) |-> Deref(o.vals[i], heap)])

\* typeof v === 'object' (true of null)
typeofObject(v) == v.t \in {"obj", "null"}
\* Array.isArray(v)
isArray(v, heap) == v.t = "obj" /\ heap[v.id].t = "seq"

\* The name of the i-th index property of an array or a string.
IndexKey(i) == ToString(i - 1)

\* The own enumerable properties an object spread copies out of a value: the
\* entries of an object, the elements of an array and the characters of a
\* string under their indexes, nothing for null, undefined and numbers.
OwnProperties(v, heap) ==
    IF v.t = "obj"
    THEN LET o == heap[v.id]
         IN  IF o.t = "seq"
             THEN MapNode([i \in 1 .. Len(o.items) |-> IndexKey(i)], o.items)
             ELSE o
    ELSE IF v.t = "str"
    THEN MapNode([i \in 1 .. Len(v.s) |-> IndexKey(i)], [i \in 1 .. Len(v.s) |-> Str(<<v.s[i]>>)])
    ELSE EmptyMap

\* Faulty variant of spreadTarget: the result is the target object itself.
aliasTarget(target, heap) ==
    IF target.t = "obj" /\ heap[target.id].t = "map"
    THEN [id |-> target.id, heap |-> heap]
    ELSE [id |-> Len(heap) + 1, heap |-> Append(heap, OwnProperties(target, heap))]

\* const result = { ...target }: a new object
spreadTarget(target, heap) ==
    [id |-> Len(heap) + 1, heap |-> Append(heap, OwnProperties(target, heap))]

\* Faulty variant of spreadArrays: the source replaces the target.
spreadSourceOnly(targetItems, sourceItems) == sourceItems

\* [...target, ...source]
spreadArrays(targetItems, sourceItems) == targetItems \o sourceItems

RECURSIVE deepMerge(_, _, _)
RECURSIVE mergeKeys(_, _, _, _)

\* for (const key of Object.keys(source)) from the i-th key on.  `key in
\* result` also holds for a method inherited from Object.prototype, whose
\* typeof is 'function', so only own properties reach the recursion.
mergeKeys(id, source, i, heap) ==
    LET s == heap[source.id]
    IN  IF i > Len(s.keys) THEN [v |-> Obj(id), heap |-> heap]
        ELSE LET key == s.keys[i]
                 result == heap[id]
             IN  IF HasKey(result, key) /\ typeofObject(Get(result, key))
                        /\ typeofObject(s.vals[i])
                 THEN LET r == deepMerge(Get(result, key), s.vals[i], heap)
                      IN  mergeKeys(id, source, i + 1,
                                    [r.heap EXCEPT ![id] = Put(@, key, r.v)])
                 ELSE mergeKeys(id, source, i + 1,
                                [heap EXCEPT ![id] = Put(@, key, s.vals[i])])

\* TemplateResolver.deepMerge(target, source): the value returned and the heap
\* after the call.
deepMerge(target, source, heap) ==
    IF source.t # "obj" THEN [v |-> source, heap |-> heap]
    ELSE IF isArray(source, heap)
    THEN LET items == IF isArray(target, heap)
                      THEN spreadArrays(heap[target.id].items, heap[source.id].items)
                      ELSE heap[source.id].items
         IN  [v |-> Obj(Len(heap) + 1), heap |-> Append(heap, SeqNode(items))]
    ELSE LET result == spreadTarget(target, heap)
         IN  mergeKeys(result.id, source, 1, result.heap)

\* ------------------------------------------------------------- generator
\* class GenerationError: the message is prefixed with the source path.
GenerationError(message, source) ==
    [name |-> "GenerationError", message |-> <<source, ": ">> \o message, source |-> source]

\* What reading a property of null or undefined throws.
TypeError(value, property) ==
    [name |-> "TypeError",
     message |-> <<"Cannot read properties of ", value.t, " (reading '", property, "')">>]

\* !value
Falsy(value) ==
    \/ value.t \in {"undefined", "null"}
    \/ value.t = "str" /\ value.s = <<>>
    \/ value.t = "num" /\ value.n = 0

\* value.key, for a value that is neither null nor undefined
Prop(value, key) == IF In(key, value) THEN Member(value, key) ELSE Undefined

\* Object.keys(value) and Object.values(value)
ObjectKeys(value) ==
    IF value.t = "map" THEN value.keys
    ELSE IF value.t = "seq" THEN [i \in 1 .. Len(value.items) |-> IndexKey(i)]
    ELSE IF value.t = "str" THEN [i \in 1 .. Len(value.s) |-> IndexKey(i)]
    ELSE <<>>

ObjectValues(value) ==
    IF value.t = "map" THEN value.vals
    ELSE IF value.t = "seq" THEN value.items
    ELSE IF value.t = "str" THEN [i \in 1 .. Len(value.s) |-> Str(<<value.s[i]>>)]
    ELSE <<>>

\* Array.isArray(job.needs) ? job.needs : [job.needs]
NeedsOf(job) ==
    LET needs == Prop(job, "needs")
    IN  IF needs.t = "seq" THEN needs.items ELSE <<needs>>

\* need && !jobNames.includes(need)
UnknownJob(need, jobNames) ==
    /\ ~Falsy(need)
    /\ ~(need.t = "str" /\ Len(need.s) = 1 /\ need.s[1] \in Range(jobNames))

RECURSIVE validateNeeds(_, _, _, _)
\* The loop over the jobs that checks what each job needs, from the i-th job on.
validateNeeds(jobs, i, jobNames, sourceFile) ==
    IF i > Len(ObjectKeys(jobs)) THEN Val(Undefined)
    ELSE LET jobName == ObjectKeys(jobs)[i]
             job == ObjectValues(jobs)[i]
             needs == IF In("needs", job) THEN NeedsOf(job) ELSE <<>>
             unknown == {n \in 1 .. Len(needs) : UnknownJob(needs[n], jobNames)}
         IN  IF unknown # {}
             THEN LET need == needs[CHOOSE n \in unknown : \A m \in unknown : n <= m]
                  IN  Err(GenerationError(<<"Job '", jobName, "' references unknown job '">>
                                              \o ToStringTokens(need) \o <<"'">>,
                                          sourceFile))
             ELSE validateNeeds(jobs, i + 1, jobNames, sourceFile)

\* validateWorkflow returns nothing or throws.
validateWorkflow(workflow, sourceFile) ==
    IF workflow.t \in {"null", "undefined"} THEN Err(TypeError(workflow, "name"))
    ELSE IF Falsy(Prop(workflow, "name"))
    THEN Err(GenerationError(<<"Workflow must have a name">>, sourceFile))
    ELSE IF Falsy(Prop(workflow, "on"))
    THEN Err(GenerationError(<<"Workflow must have triggers (on)">>, sourceFile))
    ELSE LET jobs == Prop(workflow, "jobs")
         IN  IF Falsy(jobs) \/ Len(ObjectKeys(jobs)) = 0
             THEN Err(GenerationError(<<"Workflow must have at least one job">>, sourceFile))
             ELSE validateNeeds(jobs, 1, ObjectKeys(jobs), sourceFile)

\* ------------------------------------------------- synchronous functions
\* The synchronous functions of the resolver and the generator, each applied
\* once to arguments drawn from a set of inputs.
Tok(word) == <<"$", "{">> \o word \o <<"}">>

Scalars ==
    { Tok(<<"inputs", ".", "missing">>), Tok(<<"v">>), Tok(<<"w">>),
      Tok(<<"v", ".", "k">>), Tok(<<"list", ".", "0">>), Tok(<<"list", ".", "length">>),
      Tok(<<"constructor">>), Tok(<<"v", ".", "toString">>), Tok(<<"__proto__">>),
      Tok(<<"list">>), Tok(<<>>), <<"$", "{", "v">>, <<"plain">>,
      <<"a", " ">> \o Tok(<<"v">>) \o <<" ">> \o Tok(<<"inputs", ".", "missing">>) }

Environments ==
    { EmptyMap,
      MapNode(<<"inputs">>, <<MapNode(<<"missing">>, <<Str(<<"x">>)>>)>>),
      MapNode(<<"v">>, <<Str(<<"1">>)>>),
      MapNode(<<"v", "w">>, <<MapNode(<<"k">>, <<Str(<<"1">>)>>), Null>>),
      MapNode(<<"list", "inputs">>, <<SeqNode(<<Str(<<"a">>), Str(<<"b">>)>>), Str(<<"s">>)>>) }

InterpolateCalls ==
    { [op |-> "interpolateString", args |-> [str |-> s, variables |-> e], out |-> NotRun] :
        s \in Scalars, e \in Environments }

S(name) == Str(<<name>>)

\* Arguments of deepMerge: scalars, null, Sequences, Mappings whose values
\* at a shared key are Mappings, Sequences, scalars or null.
MergeTrees ==
    { S("a"), Null, Undefined,
      SeqNode(<<>>), SeqNode(<<S("1"), S("2")>>), SeqNode(<<S("3")>>),
      EmptyMap,
      MapNode(<<"steps">>, <<SeqNode(<<S("1"), S("2")>>)>>),
      MapNode(<<"steps">>, <<SeqNode(<<S("3")>>)>>),
      MapNode(<<"steps">>, <<MapNode(<<"x">>, <<S("3")>>)>>),
      MapNode(<<"env">>, <<MapNode(<<"A", "B">>, <<S("1"), S("2")>>)>>),
      MapNode(<<"env", "steps">>, <<MapNode(<<"B">>, <<S("3")>>), Null>>),
      MapNode(<<"name", "env">>, <<S("n"), S("e")>>) }

MergeArgs(target, source) ==
    LET a == Alloc(target, <<>>)
        b == Alloc(source, a.heap)
    IN  [target |-> a.v, source |-> b.v, heap |-> b.heap]

DeepMergeCalls ==
    { [op |-> "deepMerge", args |-> MergeArgs(target, source), out |-> NotRun] :
        target \in MergeTrees, source \in MergeTrees }

\* A key with its value, or nothing when the key is left out.
Entry(key, value) == IF value = Undefined THEN <<>> ELSE <<[key |-> key, value |-> value]>>
FromEntries(entries) ==
    MapNode([i \in 1 .. Len(entries) |-> entries[i].key],
            [i \in 1 .. Len(entries) |-> entries[i].value])

\* What resolveWorkflow can hand to validateWorkflow: Mappings with and
\* without name, on and jobs, with no job, with jobs that need known and
\* unknown jobs; a scalar; the null of a file that holds "null" and the
\* undefined of an empty file, which resolveContent returns as they are.
Jobs ==
    { Undefined, Null, EmptyMap, SeqNode(<<>>),
      MapNode(<<"build">>, <<EmptyMap>>),
      MapNode(<<"build">>, <<MapNode(<<"needs">>, <<S("test")>>)>>),
      MapNode(<<"build", "test">>, <<EmptyMap, MapNode(<<"needs">>, <<S("build")>>)>>),
      MapNode(<<"build">>, <<MapNode(<<"needs">>, <<SeqNode(<<S("build"), S("lint")>>)>>)>>) }

Workflows ==
    { FromEntries(Entry("name", name) \o Entry("on", on) \o Entry("jobs", jobs)) :
        name \in {Undefined, S("ci"), Str(<<>>)},
        on \in {Undefined, Null, S("push")},
        jobs \in Jobs }
    \cup {S("ci"), Null, Undefined}

ValidateCalls ==
    { [op |-> "validateWorkflow",
       args |-> [workflow |-> workflow, sourceFile |-> "workflows/ci.yml"],
       out |-> NotRun] : workflow \in Workflows }

\* The resolver is idle while a synchronous function is applied.
Idle ==
    /\ files = MakeFiles(StrV, StrV, StrV, StrV)
    /\ opts = [cache |-> FALSE, maxDepth |-> 0, variables |-> EmptyMap]
    /\ cache = << >>
    /\ call = NoCall
    /\ main = NoJob
    /\ orphans = <<>>
    /\ stale = <<>>
    /\ parseCount = ZeroCount
    /\ refFailed = FALSE

PureInit ==
    /\ Idle
    /\ \/ pure \in InterpolateCalls
       \/ pure \in DeepMergeCalls
       \/ pure \in ValidateCalls
    /\ gen = NoGen
    /\ fs = NoFs
    /\ runner = NoRunner
    /\ os = NoOs
    /\ watcher = NoWatcher

InterpolateString ==
    /\ pure.op = "interpolateString"
    /\ pure.out = NotRun
    /\ pure' = [pure EXCEPT !.out =
                    Val(Str(interpolateString(pure.args.str,
                                              [variables |-> pure.args.variables])))]
    /\ UNCHANGED <<resolverVars, generatorVars, runnerVars, watchVars>>

DeepMerge ==
    /\ pure.op = "deepMerge"
    /\ pure.out = NotRun
    /\ pure' = [pure EXCEPT !.out =
                    LET r == deepMerge(pure.args.target, pure.args.source, pure.args.heap)
                    IN  [j |-> "val", v |-> r.v, heap |-> r.heap]]
    /\ UNCHANGED <<resolverVars, generatorVars, runnerVars, watchVars>>

\* processWorkflow validates what resolveWorkflow returned.
ValidateWorkflow ==
    /\ pure.op = "validateWorkflow"
    /\ pure.out = NotRun
    /\ pure' = [pure EXCEPT !.out = validateWorkflow(pure.args.workflow, pure.args.sourceFile)]
    /\ UNCHANGED <<resolverVars, generatorVars, runnerVars, watchVars>>

PureNext ==
    \/ InterpolateString
    \/ DeepMerge
    \/ ValidateWorkflow

PureSpec == PureInit /\ [][PureNext]_vars

\* ------------------------------------------------- generator: generate()
\* config.sourceDir and config.outputDir
SourceDir == "src"
OutputDir == "out"

\* The paths of the model, taken apart: directories, name and extension.
PathParts ==
    ("ci.yml" :> [dirs |-> <<>>, stem |-> "ci", ext |-> ".yml"])
    @@ ("ci.yaml" :> [dirs |-> <<>>, stem |-> "ci", ext |-> ".yaml"])
    @@ ("release.yml" :> [dirs |-> <<>>, stem |-> "release", ext |-> ".yml"])
    @@ ("notes.md" :> [dirs |-> <<>>, stem |-> "notes", ext |-> ".md"])
    @@ ("workflows/ci.yml" :> [dirs |-> <<"workflows">>, stem |-> "ci", ext |-> ".yml"])
    @@ ("workflows/ci.yaml" :> [dirs |-> <<"workflows">>, stem |-> "ci", ext |-> ".yaml"])
    @@ ("workflows/release.yml" :> [dirs |-> <<"workflows">>, stem |-> "release", ext |-> ".yml"])
    @@ ("out/workflows/ci.yml" :> [dirs |-> <<"out", "workflows">>, stem |-> "ci", ext |-> ".yml"])
    @@ ("out/workflows/release.yml"
            :> [dirs |-> <<"out", "workflows">>, stem |-> "release", ext |-> ".yml"])

\* The path that has the given parts.
PathOf(parts) == CHOOSE path \in DOMAIN PathParts : PathParts[path] = parts

\* path.join(dir, file)
pathJoin(dir, file) == PathOf([PathParts[file] EXCEPT !.dirs = <<dir>> \o @])

\* file.endsWith('.yml') || file.endsWith('.yaml')
IsYaml(file) == PathParts[file].ext \in {".yml", ".yaml"}

RECURSIVE MapJoin(_, _)
\* files.map(file => path.join(dir, file))
MapJoin(dir, names) ==
    IF names = <<>> THEN <<>>
    ELSE <<pathJoin(dir, Head(names))>> \o MapJoin(dir, Tail(names))

\* findWorkflowFiles: the YAML files of <sourceDir>/workflows, none when the
\* directory does not exist.
findWorkflowFiles(disk) ==
    IF ~disk.exists THEN <<>>
    ELSE MapJoin("workflows", SelectSeq(disk.entries, IsYaml))

\* getOutputPath: a leading templates/ is removed, the extension becomes
\* .yml, and the path is joined to the output directory.
getOutputPath(sourceFile) ==
    LET parts == PathParts[sourceFile]
        relative == IF parts.dirs # <<>> /\ Head(parts.dirs) = "templates"
                    THEN Tail(parts.dirs) ELSE parts.dirs
    IN  PathOf([dirs |-> <<OutputDir>> \o relative, stem |-> parts.stem, ext |-> ".yml"])

\* generateYaml: the dump of the workflow below the header that names the source.
generateYaml(workflow, sourceFile) == [source |-> sourceFile, workflow |-> workflow]

\* What a failing mkdir, writeFile or stat rejects with.
IoError(syscall) == [name |-> "Error", message |-> <<"EACCES: permission denied, ", syscall>>]

\* Output files before generate runs, and what a failed write can leave.
Absent == [source |-> "", workflow |-> Undefined]
Earlier == [source |-> "earlier build", workflow |-> Undefined]
Truncated == [source |-> "truncated", workflow |-> Undefined]

\* Resolved workflows: complete, without jobs, and the undefined of an empty file.
GoodWorkflow ==
    MapNode(<<"name", "on", "jobs">>, <<S("ci"), S("push"), MapNode(<<"build">>, <<EmptyMap>>)>>)
NoJobsWorkflow == MapNode(<<"name", "on">>, <<S("ci"), S("push")>>)

\* What resolver.resolveWorkflow gives for a source file: a tree, or the
\* error of a failed resolution.
ResolveOutcomes(sourceFile) ==
    { Val(GoodWorkflow), Val(NoJobsWorkflow), Val(Undefined),
      Err(ParserError(<<"Failed to read file: ", "ENOENT">>, sourceFile)) }

Sources == {"workflows/ci.yml", "workflows/ci.yaml", "workflows/release.yml"}
Outputs == {"out/workflows/ci.yml", "out/workflows/release.yml"}

\* The directory listings readdir can return.
Listings ==
    { <<"ci.yml", "ci.yaml", "release.yml", "notes.md">>,
      <<"release.yml", "notes.md", "ci.yml">>,
      <<"notes.md">>,
      <<>> }

Disks ==
    { [exists |-> TRUE, readdirThrows |-> FALSE, entries |-> entries,
       resolves |-> resolves, outputs |-> [o \in Outputs |-> before]] :
        entries \in Listings,
        resolves \in { f \in [Sources -> UNION {ResolveOutcomes(s) : s \in Sources}] :
                           \A s \in Sources : f[s] \in ResolveOutcomes(s) },
        before \in {Absent, Earlier} }
    \cup { [exists |-> e, readdirThrows |-> e, entries |-> <<>>,
            resolves |-> [s \in Sources |-> Val(GoodWorkflow)],
            outputs |-> [o \in Outputs |-> Earlier]] : e \in BOOLEAN }

EmptyResult ==
    [success |-> <<>>, errors |-> <<>>,
     stats |-> [totalFiles |-> 0, successCount |-> 0, errorCount |-> 0]]

GenInit ==
    /\ Idle
    /\ pure = NoPure
    /\ fs \in Disks
    /\ gen = [pc |-> "generate", workflowFiles |-> <<>>, i |-> 1, at |-> "",
              resolved |-> Undefined, outputFile |-> "", result |-> EmptyResult]
    /\ runner = NoRunner
    /\ os = NoOs
    /\ watcher = NoWatcher

\* The file the loop of generate is processing.
SourceFile == gen.workflowFiles[gen.i]

\* The head of the loop: the next file is processed, or generate returns.
NextFile(g) ==
    IF g.i > Len(g.workflowFiles)
    THEN [g EXCEPT !.pc = "returned", !.at = ""]
    ELSE [g EXCEPT !.pc = "processWorkflow", !.at = "resolveWorkflow"]

\* Faulty variant of Caught: the first failing file ends the loop.
CaughtEndsLoop(g, error) ==
    [g EXCEPT !.pc = "returned", !.at = "",
              !.result.errors = Append(@, [source |-> g.workflowFiles[g.i], error |-> error]),
              !.result.stats.errorCount = @ + 1]

\* The catch block inside the loop: the error is recorded and the loop goes on.
Caught(g, error) ==
    NextFile([g EXCEPT !.result.errors = Append(@, [source |-> g.workflowFiles[g.i],
                                                     error |-> error]),
                       !.result.stats.errorCount = @ + 1,
                       !.i = @ + 1])

\* generate up to the loop: the files are found and counted; a failing
\* readdir is rethrown as a GenerationError.
Generate ==
    /\ gen.pc = "generate"
    /\ gen' = IF fs.exists /\ fs.readdirThrows
              THEN [gen EXCEPT !.pc = "thrown"]
              ELSE LET workflowFiles == findWorkflowFiles(fs)
                   IN  NextFile([gen EXCEPT !.workflowFiles = workflowFiles,
                                            !.result.stats.totalFiles = Len(workflowFiles)])
    /\ UNCHANGED <<resolverVars, pure, fs, runnerVars, watchVars>>

\* Faulty variant of Validate: every resolved workflow is accepted.
ValidateNothing(workflow, sourceFile) == Val(Undefined)

\* this.validateWorkflow(resolved, sourceFile) in processWorkflow
Validate(workflow, sourceFile) == validateWorkflow(workflow, sourceFile)

\* processWorkflow once resolveWorkflow settled: validate, compute the output
\* path, ask for the output directory.
AwaitResolveWorkflow ==
    /\ gen.pc = "processWorkflow" /\ gen.at = "resolveWorkflow"
    /\ LET resolved == fs.resolves[SourceFile]
       IN  gen' = IF resolved.j = "err" THEN Caught(gen, resolved.e)
                  ELSE LET valid == Validate(resolved.v, SourceFile)
                       IN  IF valid.j = "err" THEN Caught(gen, valid.e)
                           ELSE [gen EXCEPT !.at = "mkdir",
                                            !.resolved = resolved.v,
                                            !.outputFile = getOutputPath(SourceFile)]
    /\ UNCHANGED <<resolverVars, pure, fs, runnerVars, watchVars>>

\* processWorkflow once mkdir settled: the YAML text is generated and its
\* write is started.
AwaitMkdir ==
    /\ gen.pc = "processWorkflow" /\ gen.at = "mkdir"
    /\ \E made \in BOOLEAN :
          gen' = IF made THEN [gen EXCEPT !.at = "writeFile"]
                 ELSE Caught(gen, IoError("mkdir"))
    /\ UNCHANGED <<resolverVars, pure, fs, runnerVars, watchVars>>

\* processWorkflow once writeFile settled; a failed write leaves the file as
\* it was or cut short.
AwaitWriteFile ==
    /\ gen.pc = "processWorkflow" /\ gen.at = "writeFile"
    /\ \/ /\ fs' = [fs EXCEPT !.outputs[gen.outputFile] = generateYaml(gen.resolved, SourceFile)]
          /\ gen' = [gen EXCEPT !.at = "getMetadata"]
       \/ /\ \E left \in {fs.outputs[gen.outputFile], Truncated} :
                fs' = [fs EXCEPT !.outputs[gen.outputFile] = left]
          /\ gen' = Caught(gen, IoError("open"))
    /\ UNCHANGED <<resolverVars, pure, runnerVars, watchVars>>

\* The loop body once getMetadata settled: the file is pushed on success, or
\* the failed stat is caught.
AwaitGetMetadata ==
    /\ gen.pc = "processWorkflow" /\ gen.at = "getMetadata"
    /\ \E found \in BOOLEAN :
          gen' = IF found
                 THEN NextFile([gen EXCEPT
                          !.result.success = Append(@, [source |-> SourceFile,
                                                        output |-> gen.outputFile]),
                          !.result.stats.successCount = @ + 1,
                          !.i = @ + 1])
                 ELSE Caught(gen, IoError("stat"))
    /\ UNCHANGED <<resolverVars, pure, fs, runnerVars, watchVars>>

GenNext ==
    \/ Generate
    \/ AwaitResolveWorkflow
    \/ AwaitMkdir
    \/ AwaitWriteFile
    \/ AwaitGetMetadata

GenSpec == GenInit /\ [][GenNext]_vars

\* ------------------------------------------------------------- ActRunner
\* Run calls made on one runner, and stdout chunks of one child process.
MaxRuns == 2
MaxChunks == 1
RunIds == 1 .. MaxRuns

\* The exit codes the close event reports; null when a signal ended the process.
ExitCodes == {Num(0), Num(1), Null}

\* The result of the close handler; logs is the array the stdout handler
\* pushes to, not a copy.
CloseResult(code) ==
    [success |-> code = Num(0),
     exitCode |-> IF Falsy(code) THEN 0 ELSE code.n,
     logs |-> "logs"]

\* The result of the error handler: it has no logs.
ErrorResult == [success |-> FALSE, exitCode |-> 1, logs |-> "undefined"]

\* Faulty variant of TimeoutResult: the timeout is reported as a plain failure.
TimeoutResultPlain == [success |-> FALSE, exitCode |-> 1, logs |-> "logs"]

\* The result of the timeout callback.
TimeoutResult == [success |-> FALSE, exitCode |-> 124, logs |-> "logs"]

\* A run call that was not made yet, and a child process that was not spawned.
NoRun ==
    [pc |-> "none", method |-> "", finished |-> FALSE, timeout |-> "none", logs |-> 0,
     first |-> "", resolves |-> <<>>, outcome |-> NotRun]
NoProc == [spawned |-> FALSE, closed |-> FALSE, errored |-> FALSE]

RunnerInit ==
    /\ Idle
    /\ pure = NoPure
    /\ gen = NoGen
    /\ fs = NoFs
    /\ runner = [processes |-> {}, tempDirs |-> {}, calls |-> [r \in RunIds |-> NoRun]]
    /\ os = [dirs |-> {}, procs |-> [r \in RunIds |-> NoProc]]
    /\ watcher = NoWatcher

\* The runner and what it acts on, as one value the methods transform.
Both == [runner |-> runner, os |-> os]

\* createTempDir: a directory with a fresh random name, one per call, is
\* made and tracked.
createTempDir(st, dir) ==
    [st EXCEPT !.os.dirs = @ \cup {dir}, !.runner.tempDirs = @ \cup {dir}]

\* Faulty variant of cleanupTempDir: the directory stays in the tracked set.
cleanupTempDirTracked(st, dir) == [st EXCEPT !.os.dirs = @ \ {dir}]

\* cleanupTempDir: rmSync(recursive, force) if the directory exists, then
\* the directory is untracked.  The removal of a directory this process made
\* under the system's temp directory is taken to succeed.
cleanupTempDir(st, dir) ==
    [st EXCEPT !.os.dirs = @ \ {dir}, !.runner.tempDirs = @ \ {dir}]

\* The finally block of run / runWithStream, and the call settling.
Finally(st, r, outcome) ==
    [cleanupTempDir(st, r) EXCEPT !.runner.calls[r].pc = "settled",
                                  !.runner.calls[r].outcome = outcome]

\* resolve(result) of the promise of executeAct / executeActWithStream: the
\* first call settles the promise, and the run call that awaits it returns
\* the result through its finally block.
Resolve(st, r, result) ==
    LET called == [st EXCEPT !.runner.calls[r].resolves = Append(@, result)]
    IN  IF st.runner.calls[r].resolves = <<>> /\ st.runner.calls[r].pc = "executeAct"
        THEN Finally(called, r, Val(result))
        ELSE called

\* run / runWithStream up to the await: the temp directory is created, the
\* event, secrets and env files are written, the child process is spawned and
\* tracked, and run arms the 20-second timeout.  mkdirSync or writeFileSync
\* may throw.
StartRun(r, method) ==
    /\ runner.calls[r].pc = "none"
    /\ \A q \in 1 .. r - 1 : runner.calls[q].pc # "none"
    /\ \E step \in {"mkdirSync throws", "writeFileSync throws", "spawn"} :
          LET began == [Both EXCEPT !.runner.calls[r].method = method]
              next ==
                  IF step = "mkdirSync throws"
                  THEN [began EXCEPT !.runner.calls[r].pc = "settled",
                                     !.runner.calls[r].outcome = Err(IoError("mkdir"))]
                  ELSE IF step = "writeFileSync throws"
                  THEN Finally(createTempDir(began, r), r, Err(IoError("open")))
                  ELSE [createTempDir(began, r) EXCEPT
                           !.os.procs[r].spawned = TRUE,
                           !.runner.processes = @ \cup {r},
                           !.runner.calls[r].pc = "executeAct",
                           !.runner.calls[r].timeout =
                               IF method = "run" THEN "armed" ELSE "none"]
          IN  runner' = next.runner /\ os' = next.os
    /\ UNCHANGED <<resolverVars, pure, generatorVars, watchVars>>

Run == \E r \in RunIds : StartRun(r, "run")

RunWithStream == \E r \in RunIds : StartRun(r, "runWithStream")

\* proc.stdout.on('data'): the chunk is pushed on the logs array.
StdoutData ==
    \E r \in RunIds :
        /\ os.procs[r].spawned /\ ~os.procs[r].closed
        /\ runner.calls[r].logs < MaxChunks
        /\ runner' = [runner EXCEPT !.calls[r].logs = @ + 1]
        /\ UNCHANGED <<resolverVars, pure, generatorVars, os, watchVars>>

\* The first of close, error and timeout that happens for a call.
Note(st, r, event) ==
    IF st.runner.calls[r].first = "" THEN [st EXCEPT !.runner.calls[r].first = event] ELSE st

\* The close and error handlers of executeAct and of executeActWithStream;
\* the former return at once when finished is set, and clear the timeout.
Handle(st, r, result) ==
    IF st.runner.calls[r].method = "run"
    THEN IF st.runner.calls[r].finished THEN st
         ELSE Resolve([st EXCEPT !.runner.calls[r].finished = TRUE,
                                 !.runner.calls[r].timeout = "cleared",
                                 !.runner.processes = @ \ {r}],
                      r, result)
    ELSE Resolve([st EXCEPT !.runner.processes = @ \ {r}], r, result)

\* proc.on('close')
Close ==
    \E r \in RunIds, code \in ExitCodes :
        /\ os.procs[r].spawned /\ ~os.procs[r].closed
        /\ LET event == IF code = Null THEN "close null" ELSE "close " \o ToString(code.n)
               next == Handle(Note([Both EXCEPT !.os.procs[r].closed = TRUE], r, event),
                              r, CloseResult(code))
           IN  runner' = next.runner /\ os' = next.os
        /\ UNCHANGED <<resolverVars, pure, generatorVars, watchVars>>

\* proc.on('error'): the process could not be spawned or killed.
ProcError ==
    \E r \in RunIds :
        /\ os.procs[r].spawned /\ ~os.procs[r].closed /\ ~os.procs[r].errored
        /\ LET next == Handle(Note([Both EXCEPT !.os.procs[r].errored = TRUE], r, "error"),
                              r, ErrorResult)
           IN  runner' = next.runner /\ os' = next.os
        /\ UNCHANGED <<resolverVars, pure, generatorVars, watchVars>>

\* The callback of setTimeout(..., 20000) in executeAct.
Timeout ==
    \E r \in RunIds :
        /\ runner.calls[r].timeout = "armed"
        /\ LET fired == Note([Both EXCEPT !.runner.calls[r].timeout = "fired"], r, "timeout")
               next == IF fired.runner.calls[r].finished THEN fired
                       ELSE Resolve([fired EXCEPT !.runner.calls[r].finished = TRUE,
                                                  !.runner.processes = @ \ {r}],
                                    r, TimeoutResult)
           IN  runner' = next.runner /\ os' = next.os
        /\ UNCHANGED <<resolverVars, pure, generatorVars, watchVars>>

\* The loop of cleanup() over the tracked directories.
RECURSIVE cleanupEach(_, _)
cleanupEach(st, dirs) ==
    IF dirs = {} THEN st
    ELSE LET tempDir == CHOOSE d \in dirs : TRUE
         IN  cleanupEach(cleanupTempDir(st, tempDir), dirs \ {tempDir})

\* cleanup(): every tracked process is sent SIGTERM and the set is cleared,
\* every tracked directory is removed and the set is cleared.
Cleanup ==
    /\ LET killed == [Both EXCEPT !.runner.processes = {}]
           removed == cleanupEach(killed, runner.tempDirs)
           next == [removed EXCEPT !.runner.tempDirs = {}]
       IN  runner' = next.runner /\ os' = next.os
    /\ UNCHANGED <<resolverVars, pure, generatorVars, watchVars>>

RunnerNext ==
    \/ Run
    \/ RunWithStream
    \/ StdoutData
    \/ Close
    \/ ProcError
    \/ Timeout
    \/ Cleanup

RunnerSpec == RunnerInit /\ [][RunnerNext]_vars

\* ------------------------------------------------------------ watch mode
\* Edits of one watched file.
MaxVersion == 2

\* The workflow sources under the watched directory.
WatchedFiles == {"ci.yml", "release.yaml"}

\* The watched directory: version 0 is a file that is not there.
SourceStates == [WatchedFiles -> 0 .. 1]

\* The state before watch() is called: nothing was built.
WatchInit ==
    /\ Idle
    /\ pure = NoPure
    /\ gen = NoGen
    /\ fs = NoFs
    /\ runner = NoRunner
    /\ os = NoOs
    /\ \E source \in SourceStates :
          watcher = [pc |-> "watch", isBuilding |-> FALSE, running |-> 0, build |-> "none",
                     source |-> source, read |-> [f \in WatchedFiles |-> 0],
                     output |-> [f \in WatchedFiles |-> 0], unbuilt |-> {}]

\* rebuild up to its await: it returns at once while a build is running,
\* otherwise it sets isBuilding and calls build.  A build that starts here
\* starts after every event noted so far.
rebuild(wt) ==
    IF wt.isBuilding THEN wt
    ELSE [wt EXCEPT !.isBuilding = TRUE, !.running = @ + 1, !.build = "generate",
                    !.unbuilt = {}]

\* watch(): the handlers are registered and the initial build starts.
Watch ==
    /\ watcher.pc = "watch"
    /\ watcher' = rebuild([watcher EXCEPT !.pc = "watching"])
    /\ UNCHANGED <<resolverVars, pure, generatorVars, runnerVars>>

\* The add, change and unlink handlers: each calls rebuild().
OnEvent(filePath, version) ==
    /\ watcher.pc = "watching"
    /\ watcher' = rebuild([watcher EXCEPT !.source[filePath] = version,
                                          !.unbuilt = @ \cup {filePath}])
    /\ UNCHANGED <<resolverVars, pure, generatorVars, runnerVars>>

OnAdd ==
    \E filePath \in WatchedFiles :
        /\ watcher.pc = "watching"
        /\ watcher.source[filePath] = 0
        /\ OnEvent(filePath, 1)

OnChange ==
    \E filePath \in WatchedFiles :
        /\ watcher.pc = "watching"
        /\ watcher.source[filePath] \in 1 .. MaxVersion - 1
        /\ OnEvent(filePath, watcher.source[filePath] + 1)

OnUnlink ==
    \E filePath \in WatchedFiles :
        /\ watcher.pc = "watching"
        /\ watcher.source[filePath] > 0
        /\ OnEvent(filePath, 0)

\* generator.generate() inside build: the sources are read at some moment
\* of the build.
GenerateReads ==
    /\ watcher.pc = "watching"
    /\ watcher.build = "generate"
    /\ watcher' = [watcher EXCEPT !.build = "read", !.read = watcher.source]
    /\ UNCHANGED <<resolverVars, pure, generatorVars, runnerVars>>

\* build settles: the outputs of what was read are written; with errors in
\* the result build calls process.exit(1), otherwise rebuild resumes and
\* clears isBuilding.
BuildSettles ==
    /\ watcher.pc = "watching"
    /\ watcher.build = "read"
    /\ \E errors \in BOOLEAN :
          watcher' = IF errors
                     THEN [watcher EXCEPT !.pc = "exited", !.build = "none",
                                          !.running = @ - 1, !.output = watcher.read]
                     ELSE [watcher EXCEPT !.build = "none", !.running = @ - 1,
                                          !.output = watcher.read, !.isBuilding = FALSE]
    /\ UNCHANGED <<resolverVars, pure, generatorVars, runnerVars>>

WatchNext ==
    \/ Watch
    \/ OnAdd
    \/ OnChange
    \/ OnUnlink
    \/ GenerateReads
    \/ BuildSettles

\* A build that was started settles: generate() reads and returns.  The
\* events are the user's edits, and nothing obliges the user to edit again.
WatchFairness == WF_vars(GenerateReads) /\ WF_vars(BuildSettles)

WatchSpec == WatchInit /\ [][WatchNext]_vars /\ WatchFairness

\* ENABLED <<CompleteRead>>_vars as a state predicate: some job has a read
\* pending (completing a read always changes the job that waits for it).
CanComplete ==
    \/ Pending(main) # {}
    \/ \E k \in 1 .. Len(orphans) : Pending(orphans[k]) # {}
    \/ \E k \in 1 .. Len(stale) : Pending(stale[k]) # {}

\* Weak fairness of CompleteRead: every read the file system was asked for
\* completes (fs.promises.readFile settles, and the event loop then runs the
\* code that awaits it).
Fairness == []<>(~CanComplete) \/ []<><<CompleteRead>>_vars

FairSpec == Spec /\ Fairness


\* ------------------------------------------------------ the fragment graph
RECURSIVE Targets(_)
\* The files a parsed tree references or includes (extractDependencies).
Targets(node) ==
    IF node.t \in {"reference", "inclusion"} THEN {pathResolve(node.path)}
    ELSE IF node.t = "seq" THEN UNION {Targets(node.items[i]) : i \in 1 .. Len(node.items)}
    ELSE IF node.t = "map" THEN UNION {Targets(node.vals[i]) : i \in 1 .. Len(node.vals)}
    ELSE {}

Succ(f) == Targets(files[f])

RECURSIVE ReachFrom(_)
ReachFrom(set) ==
    LET next == set \cup UNION {Succ(f) : f \in set}
    IN  IF next = set THEN set ELSE ReachFrom(next)

\* The files a call on root can visit.
Reach(root) == ReachFrom({pathResolve(root)})
Acyclic(root) == \A f \in Reach(root) : Succ(f) = {} \/ f \notin ReachFrom(Succ(f))
AllReadable(root) == \A f \in Reach(root) : files[f] # Missing

RECURSIVE LongestFiles(_)
\* Number of files on the longest reference chain that starts at f (acyclic graphs).
LongestFiles(f) ==
    IF Succ(f) = {} THEN 1
    ELSE LET m == {LongestFiles(g) : g \in Succ(f)}
         IN  1 + CHOOSE x \in m : \A y \in m : y <= x

RECURSIVE ChainFrom(_, _)
\* Follows a chain of files that each consist of one Reference: the files in
\* visit order, how the chain ends and where.
ChainFrom(f, seen) ==
    IF f \in Range(seen) THEN [files |-> seen, end |-> "cycle", at |-> f]
    ELSE IF files[f] = Missing THEN [files |-> Append(seen, f), end |-> "missing", at |-> f]
    ELSE IF files[f].t = "reference"
    THEN ChainFrom(pathResolve(files[f].path), Append(seen, f))
    ELSE IF Targets(files[f]) = {} THEN [files |-> Append(seen, f), end |-> "leaf", at |-> f]
    ELSE [files |-> Append(seen, f), end |-> "branch", at |-> f]

Chain == ChainFrom(pathResolve(call.root), <<>>)
Called == call.root # ""

RECURSIVE HasTagged(_)
\* Whether a Reference or an Inclusion occurs in a tree, at any depth.
HasTagged(node) ==
    IF node.t \in {"reference", "inclusion"} THEN TRUE
    ELSE IF node.t = "seq" THEN \E i \in 1 .. Len(node.items) : HasTagged(node.items[i])
    ELSE IF node.t = "map" THEN \E i \in 1 .. Len(node.vals) : HasTagged(node.vals[i])
    ELSE FALSE

\* ------------------------------------------------------------------ claims

\* C1: a tree returned by a resolution call (resolveFile, resolveWorkflow,
\* resolveJob, resolveStep) contains no Reference and no Inclusion at any depth.
C1_NoTaggedNodeLeft == main.j = "val" => ~HasTagged(main.v)

\* C1 witness: a call on a root made of References, with an Inclusion below
\* it, returned a tree.
C1_Witness ==
    /\ main.j = "val"
    /\ HasTagged(files[pathResolve(call.root)])
    /\ \E f \in Reach(call.root) : files[f].t = "inclusion"

\* C2: when the chain of References from the root revisits a file of the
\* active stack, the call fails with a CircularDependencyError whose cycle is
\* the files in visit order followed by the repeated file ([A, A], [A, B, C, A]).
C2_CycleErrorPayload ==
    (Called /\ Settled(main) /\ Chain.end = "cycle" /\ Len(Chain.files) <= maxDepth)
        => /\ main.j = "err"
           /\ main.e.name = "CircularDependencyError"
           /\ main.e.cycle = Append(Chain.files, Chain.at)


\* C2 witness: a call on a file that references itself failed.
C2_Witness ==
    /\ main.j = "err"
    /\ Chain.end = "cycle"
    /\ Chain.files = <<"/A">>

\* The longest chain of References below the root, counted in References.
LongestRefs == LongestFiles(pathResolve(call.root)) - 1

C3_Outcome ==
    (Called /\ Settled(main))
        => /\ (AllReadable(call.root) /\ Acyclic(call.root)
                  /\ LongestFiles(pathResolve(call.root)) <= maxDepth)
                => main.j = "val"
           /\ ~Acyclic(call.root) => main.j = "err"
           /\ (~opts.cache /\ Acyclic(call.root)
                  /\ LongestFiles(pathResolve(call.root)) > maxDepth)
                => main.j = "err"

NamesLimit(e, n) ==
    \E i \in 1 .. Len(e.message) - 2 :
        /\ e.message[i] = "Maximum recursion depth ("
        /\ e.message[i + 1] = ToString(n)
        /\ e.message[i + 2] = ") exceeded"

RECURSIVE HasParams(_)
HasParams(node) ==
    IF node.t = "reference" THEN node.params # EmptyMap
    ELSE IF node.t = "seq" THEN \E i \in 1 .. Len(node.items) : HasParams(node.items[i])
    ELSE IF node.t = "map" THEN \E i \in 1 .. Len(node.vals) : HasParams(node.vals[i])
    ELSE FALSE

\* C5: in a graph whose References all carry the same (empty) params, no
\* file is read more than once during one top-level call.
C5_ReadOnce ==
    (\A f \in AbsPaths : ~HasParams(files[f]))
        => \A f \in AbsPaths : parseCount[f] <= 1

\* C6: once the resolution of a Reference or an Inclusion has failed, the
\* top-level call has failed: it returns no tree.
C6_FailureAborts == refFailed => main.j = "err"

\* C6 witness: a read failure below a Reference made the call fail.
C6_Witness ==
    /\ refFailed
    /\ main.j = "err"
    /\ "ENOENT" \in Range(main.e.message)
    /\ main.e.name = "ResolutionError"

ScopingRoot ==
    MapNode(<<"x", "y", "z">>, <<RefWith("D", "20"), Ref("D"), StrV>>)

\* C7: the params of a Reference resolve the placeholders of its target and
\* of nothing else: in {x: D with v = 20, y: D, z: "${v}"} with D = "${v}",
\* x is "20" while y and z are "${v}" under the variables of the call.
C7_ParamScoping ==
    (main.j = "val" /\ call.root = "A" /\ files["/A"] = ScopingRoot /\ files["/D"] = StrV)
        => LET outer == Str(interpolateString(StrV.s,
                            [variables |-> Spread(opts.variables, call.variables)]))
           IN  main.v.vals = <<Str(<<"20">>), outer, outer>>

\* The paths listed after "Circular dependency detected: " in a message.
CyclePaths(message) ==
    LET m == CHOOSE i \in 1 .. Len(message) : message[i] = "Circular dependency detected: "
        rest == SubSeq(message, m + 1, Len(message))
    IN  [i \in 1 .. (Len(rest) + 1) \div 2 |-> rest[2 * i - 1]]

MentionsCycle(e) == "Circular dependency detected: " \in Range(e.message)

\* C8: a cycle error is raised only for a file that is an ancestor on the
\* branch that reaches it again: the reported paths are a chain of references
\* from the root whose last file, and no other, occurs twice.  Two branches
\* that reach one file by different routes raise none.
C8_CycleOnlyOnOwnBranch ==
    (main.j = "err" /\ MentionsCycle(main.e))
        => LET c == CyclePaths(main.e.message)
               n == Len(c)
           IN  /\ c[1] = pathResolve(call.root)
               /\ \A i \in 1 .. n - 1 : c[i + 1] \in Succ(c[i])
               /\ \E i \in 1 .. n - 1 : c[i] = c[n]
               /\ \A i, k \in 1 .. n - 1 : c[i] = c[k] => i = k

\* C8 witness: both branches of a diamond, resolved concurrently, read the
\* shared file and the call returned a tree.
C8_Witness ==
    /\ main.j = "val"
    /\ call.root = "A"
    /\ files["/A"] = SeqNode(<<Ref("B"), Ref("C")>>)
    /\ files["/B"] = Ref("D")
    /\ files["/C"] = Ref("D")
    /\ parseCount["/D"] = 2

\* C9: every write of the cache for a path stores the value the cache already
\* holds for it.
C9_WritesConverge ==
    [][\A f \in DOMAIN cache \cap DOMAIN cache' : cache'[f] = cache[f]]_vars

RECURSIVE LexLeq(_, _)
LexLeq(p, q) ==
    IF Len(p) = 0 THEN TRUE
    ELSE IF Len(q) = 0 THEN FALSE
    ELSE IF Head(p) # Head(q) THEN Head(p) < Head(q)
    ELSE LexLeq(Tail(p), Tail(q))

FirstPending(job) == CHOOSE p \in Pending(job) : \A q \in Pending(job) : LexLeq(p, q)

RECURSIVE RunInOrder(_)
\* The outcome of a call whose reads complete in index order.
RunInOrder(r) ==
    IF Pending(r.job) = {} THEN r.job
    ELSE RunInOrder(Complete(r.job, FirstPending(r.job), r.w))

InOrderOutcome ==
    RunInOrder(resolveFile(call.root,
                   [fileStack |-> <<>>, cache |-> call.cacheArg, variables |-> call.variables],
                   [cache |-> << >>, parseCount |-> ZeroCount,
                    orphans |-> <<>>, refFailed |-> FALSE]))

\* C10: a failing call fails with the same error in every execution, here the
\* error of the execution whose reads complete in index order (caching off).
C10_SameError ==
    (Called /\ ~opts.cache /\ main.j = "err")
        => (InOrderOutcome.j = "err" /\ main.e = InOrderOutcome.e)

\* The children of a Sequence or a Mapping, in order.
Kids(node) ==
    IF node.t = "map" THEN node.vals
    ELSE IF node.t = "seq" THEN node.items
    ELSE <<>>

\* The first two children of the root file are References to two different
\* files that hold the same Reference: two Reference nodes with the same
\* path and the same params, at the same depth.
TwinReferences ==
    /\ call.root = "A"
    /\ Len(Kids(files["/A"])) >= 2
    /\ LET k == Kids(files["/A"])
       IN  /\ k[1].t = "reference" /\ k[2].t = "reference"
           /\ pathResolve(k[1].path) # pathResolve(k[2].path)
           /\ files[pathResolve(k[1].path)] = files[pathResolve(k[2].path)]
           /\ files[pathResolve(k[1].path)].t = "reference"

\* C11: two Reference nodes with the same path and the same params at the
\* same depth resolve to identical subtrees, with the cache on or off.
C11_SameSubtrees ==
    (main.j = "val" /\ TwinReferences)
        => Kids(main.v)[1] = Kids(main.v)[2]

\* A scalar that is exactly one placeholder, and the dotted path it names.
IsPlaceholder(str) ==
    /\ Len(str) >= 4
    /\ str[1] = "$" /\ str[2] = "{" /\ str[Len(str)] = "}"
    /\ \A i \in 3 .. Len(str) - 1 : str[i] # "}"

RECURSIVE Lookup(_, _)
\* Dotted-path lookup in the variables: each part is a key of a Mapping or
\* an index (or the length) of a Sequence.
Lookup(value, parts) ==
    IF Len(parts) = 0 THEN value
    ELSE IF Len(Head(parts)) # 1 THEN Undefined
    ELSE LET part == Head(parts)[1]
         IN  IF value.t = "map" /\ HasKey(value, part)
             THEN Lookup(Get(value, part), Tail(parts))
             ELSE IF value.t = "seq" /\ part \in DOMAIN IndexOf
                     /\ IndexOf[part] <= Len(value.items)
             THEN Lookup(value.items[IndexOf[part]], Tail(parts))
             ELSE IF value.t = "seq" /\ part = "length" /\ Len(parts) = 1
             THEN Num(Len(value.items))
             ELSE Undefined

\* C12: a placeholder whose dotted path resolves in the variables is replaced
\* by the value, and one whose path does not resolve is left verbatim.
C12_Placeholders ==
    (pure.op = "interpolateString" /\ pure.out # NotRun /\ IsPlaceholder(pure.args.str))
        => LET str == pure.args.str
               value == Lookup(pure.args.variables,
                               SplitDots(SubSeq(str, 3, Len(str) - 1), <<>>))
           IN  pure.out.v.s = IF value # Undefined THEN ToStringTokens(value) ELSE str

\* The variables a top-level call resolves its root file under.
RootVariables == Spread(opts.variables, call.variables)

RECURSIVE Substituted(_, _)
\* A tree with the placeholders of its textual scalars substituted, and nothing
\* else changed.
Substituted(node, variables) ==
    IF node.t = "str" THEN Str(ReplaceFrom(node.s, 1, variables))
    ELSE IF node.t = "seq"
    THEN SeqNode([i \in 1 .. Len(node.items) |-> Substituted(node.items[i], variables)])
    ELSE IF node.t = "map"
    THEN MapNode(node.keys,
                 [i \in 1 .. Len(node.vals) |-> Substituted(node.vals[i], variables)])
    ELSE node

\* A call returned a tree for a root file that holds no Reference and no
\* Inclusion.
PlainRootResolved ==
    /\ main.j = "val"
    /\ ~HasTagged(files[pathResolve(call.root)])

Merged == pure.op = "deepMerge" /\ pure.out # NotRun
MergeTarget == Deref(pure.args.target, pure.args.heap)
MergeSource == Deref(pure.args.source, pure.args.heap)
MergeResult == Deref(pure.out.v, pure.out.heap)

\* C14: two Sequences merge to target's elements followed by source's, also
\* as the values of a key two merged Mappings share.
C14_SequencesConcatenate ==
    Merged =>
        /\ (MergeTarget.t = "seq" /\ MergeSource.t = "seq")
              => MergeResult = SeqNode(MergeTarget.items \o MergeSource.items)
        /\ (MergeTarget.t = "map" /\ MergeSource.t = "map")
              => \A i \in 1 .. Len(MergeSource.keys) :
                    LET key == MergeSource.keys[i]
                    IN  (/\ HasKey(MergeTarget, key)
                         /\ Get(MergeTarget, key).t = "seq"
                         /\ MergeSource.vals[i].t = "seq")
                          => Get(MergeResult, key)
                               = SeqNode(Get(MergeTarget, key).items \o MergeSource.vals[i].items)

\* C14 witness: {steps: [1, 2]} merged with {steps: [3]} gave {steps: [1, 2, 3]}.
C14_Witness ==
    /\ Merged
    /\ MergeTarget = MapNode(<<"steps">>, <<SeqNode(<<S("1"), S("2")>>)>>)
    /\ MergeSource = MapNode(<<"steps">>, <<SeqNode(<<S("3")>>)>>)
    /\ MergeResult = MapNode(<<"steps">>, <<SeqNode(<<S("1"), S("2"), S("3")>>)>>)

\* C15: merging two Mappings keeps every key of both; at a shared key two
\* Mappings are merged again, and in every other case source's value is taken.
C15_SourceWins ==
    (Merged /\ MergeTarget.t = "map" /\ MergeSource.t = "map")
        => /\ MergeResult.t = "map"
           /\ Range(MergeResult.keys) = Range(MergeTarget.keys) \cup Range(MergeSource.keys)
           /\ \A key \in Range(MergeTarget.keys) \ Range(MergeSource.keys) :
                 Get(MergeResult, key) = Get(MergeTarget, key)
           /\ \A key \in Range(MergeSource.keys) \ Range(MergeTarget.keys) :
                 Get(MergeResult, key) = Get(MergeSource, key)
           /\ \A key \in Range(MergeSource.keys) \cap Range(MergeTarget.keys) :
                 IF Get(MergeTarget, key).t = "map" /\ Get(MergeSource, key).t = "map"
                 THEN /\ Get(MergeResult, key).t = "map"
                      /\ Range(Get(MergeResult, key).keys)
                            = Range(Get(MergeTarget, key).keys)
                                \cup Range(Get(MergeSource, key).keys)
                 ELSE Get(MergeResult, key) = Get(MergeSource, key)

\* C16: deepMerge changes no object that existed before the call, at any
\* nesting level of target or source, and what it returns for a Mapping or a
\* Sequence source is an object that did not exist before.
C16_InputsUntouched ==
    Merged =>
        /\ \A id \in 1 .. Len(pure.args.heap) : pure.out.heap[id] = pure.args.heap[id]
        /\ pure.out.v.t = "obj" => pure.out.v.id > Len(pure.args.heap)

\* C16 witness: a merge that recursed into a shared key and built new objects.
C16_Witness ==
    /\ Merged
    /\ MergeTarget = MapNode(<<"env">>, <<MapNode(<<"A", "B">>, <<S("1"), S("2")>>)>>)
    /\ MergeSource = MapNode(<<"env", "steps">>, <<MapNode(<<"B">>, <<S("3")>>), Null>>)
    /\ Len(pure.out.heap) = Len(pure.args.heap) + 2
    /\ MergeResult = MapNode(<<"env", "steps">>,
                             <<MapNode(<<"A", "B">>, <<S("1"), S("3")>>), Null>>)

\* C17: an Inclusion with merge = true inside a Mapping, whose content is a
\* Mapping, has the keys of its content merged into the enclosing Mapping and
\* is not nested under the key that holds it.
C17_MergedIntoParent ==
    (main.j = "val" /\ call.root = "A" /\ files["/A"] = MergeRoot /\ files["/D"].t = "map")
        => /\ ~HasKey(main.v, "inc")
           /\ \A key \in Range(files["/D"].keys) : HasKey(main.v, key)

\* C18: a call that passes a fresh cache in its context (resolveWorkflow,
\* resolveJob, resolveStep) returns a result computed in that call: the file it
\* names was read during the call and was not taken from the memo of an
\* earlier call.
C18_FreshCacheIsolated ==
    (call.cacheArg = "new Map()" /\ main.j = "val")
        => parseCount[pathResolve(call.root)] > 0

RECURSIVE TraceOf(_)
\* Reads an error message back: the levels a catch block of resolveReference
\* or resolveInclusion prepended (the file that made the reference and the
\* reference path it used), and the message of the error they wrap.
TraceOf(message) ==
    IF /\ Len(message) >= 5
       /\ message[2] = ": "
       /\ message[3] \in {"Failed to resolve reference '", "Failed to include '"}
       /\ message[5] = "': "
    THEN LET rest == TraceOf(SubSeq(message, 6, Len(message)))
         IN  [levels |-> <<[file |-> message[1], referencePath |-> message[4]]>> \o rest.levels,
              cause |-> rest.cause]
    ELSE [levels |-> <<>>, cause |-> message]

\* The call failed, and neither the cycle check nor the depth check made the
\* error: the reader did.
ReaderFailed ==
    /\ main.j = "err"
    /\ "Circular dependency detected: " \notin Range(main.e.message)
    /\ "Maximum recursion depth (" \notin Range(main.e.message)

\* The files named by a trace, from the first referencing file to the file of
\* the wrapped error.
TraceFiles(tr) == [i \in 1 .. Len(tr.levels) |-> tr.levels[i].file] \o <<tr.cause[1]>>

\* C19: when the reader fails for a file reached through References or
\* Inclusions, the error the caller gets names, level by level, the file that
\* made the reference and the reference path it used: the levels start at the
\* root of the call, each referencing file contains the reference it is said
\* to have made, each reference path leads to the file of the next level, and
\* the last one leads to the file the reader could not read.
C19_ChainRecoverable ==
    ReaderFailed =>
        LET tr == TraceOf(main.e.message)
            chain == TraceFiles(tr)
        IN  /\ Len(tr.cause) = 4
            /\ SubSeq(tr.cause, 2, 4) = <<": ", "Failed to read file: ", "ENOENT">>
            /\ files[pathResolve(tr.cause[1])] = Missing
            /\ chain[1] = call.root
            /\ \A i \in 1 .. Len(tr.levels) :
                    /\ pathResolve(tr.levels[i].referencePath) \in Succ(pathResolve(chain[i]))
                    /\ chain[i + 1] = pathResolve(tr.levels[i].referencePath)
            /\ main.e.file = chain[1]
            /\ Len(tr.levels) > 0 => main.e.referencePath = tr.levels[1].referencePath

\* The reader failed two levels below the root, one level made by an
\* Inclusion and one by a Reference.
C19_Witness ==
    /\ ReaderFailed
    /\ LET tr == TraceOf(main.e.message)
       IN  /\ Len(tr.levels) = 2
           /\ main.e.message[3] = "Failed to include '"
           /\ main.e.message[8] = "Failed to resolve reference '"

\* The value a resolved workflow holds under a key, undefined when it holds none.
Field(workflow, key) ==
    IF workflow.t = "map" /\ HasKey(workflow, key) THEN Get(workflow, key) ELSE Undefined

\* A key that is left out, or written with no value or an empty text, holds nothing.
Blank(value) == value.t \in {"undefined", "null"} \/ value = Str(<<>>)

\* The required fields a resolved workflow lacks: name, on, or a jobs
\* collection that is absent or empty.
MissingFields(workflow) ==
    {key \in {"name", "on"} : Blank(Field(workflow, key))}
    \cup (IF \/ Blank(Field(workflow, "jobs"))
             \/ Len(ObjectKeys(Field(workflow, "jobs"))) = 0
          THEN {"jobs"} ELSE {})

\* The message validateWorkflow has for each required field.
FieldMessage ==
    ("name" :> "Workflow must have a name")
    @@ ("on" :> "Workflow must have triggers (on)")
    @@ ("jobs" :> "Workflow must have at least one job")

\* C20: a resolved workflow that has no name, no triggers (on), or an absent
\* or empty jobs collection is rejected with a validation error that names a
\* missing field and the source path.
C20_ValidationError ==
    (/\ pure.op = "validateWorkflow"
     /\ pure.out # NotRun
     /\ MissingFields(pure.args.workflow) # {})
        => /\ pure.out.j = "err"
           /\ pure.out.e.name = "GenerationError"
           /\ pure.out.e.source = pure.args.sourceFile
           /\ pure.out.e.message[1] = pure.args.sourceFile
           /\ \E key \in MissingFields(pure.args.workflow) :
                  FieldMessage[key] \in Range(pure.out.e.message)

\* The cycle a cycle error lists, read back from the message of the error
\* that reached the caller: what follows "Circular dependency detected: ".
CycleText(message) ==
    LET at == CHOOSE i \in 1 .. Len(message) : message[i] = "Circular dependency detected: "
    IN  SubSeq(message, at + 1, Len(message))

\* The part of a stack from the first occurrence of a path on.
FromFirst(stack, path) ==
    LET first == CHOOSE i \in 1 .. Len(stack) :
                     stack[i] = path /\ \A k \in 1 .. i - 1 : stack[k] # path
    IN  SubSeq(stack, first, Len(stack))

\* C21: when the chain of References from the root runs into a cycle, the
\* cycle the error lists starts at the first occurrence of the repeated file
\* and ends with the repeated file; files visited before it are left out.
C21_CycleFromFirstOccurrence ==
    (/\ main.j = "err"
     /\ Chain.end = "cycle"
     /\ Len(Chain.files) <= maxDepth
     /\ "Circular dependency detected: " \in Range(main.e.message))
        => CycleText(main.e.message)
               = JoinWith(Append(FromFirst(Chain.files, Chain.at), Chain.at), " -> ")

\* The first two children of the root file are References to one file, a
\* textual scalar, with different params.
SameFileTwice ==
    /\ call.root = "A"
    /\ Len(Kids(files["/A"])) >= 2
    /\ LET k == Kids(files["/A"])
       IN  /\ k[1].t = "reference" /\ k[2].t = "reference"
           /\ pathResolve(k[1].path) = pathResolve(k[2].path)
           /\ k[1].params # k[2].params
           /\ files[pathResolve(k[1].path)].t = "str"

\* C22: with caching on, of two References to one file with different
\* params the second receives what was resolved for the params of the first,
\* and the file is resolved once (the call read it, and read it one time).
C22_SecondReusesFirst ==
    (/\ opts.cache
     /\ main.j = "val"
     /\ SameFileTwice
     /\ parseCount[pathResolve(Kids(files["/A"])[1].path)] > 0)
        => LET first == Kids(files["/A"])[1]
               target == pathResolve(first.path)
               variables == Spread(Spread(opts.variables, call.variables), first.params)
           IN  /\ Kids(main.v)[1] = Str(interpolateString(files[target].s, [variables |-> variables]))
               /\ Kids(main.v)[2] = Kids(main.v)[1]
               /\ parseCount[target] = 1

\* The root file is a Mapping whose key "inc" holds an Inclusion with
\* merge = false of a file without Reference or Inclusion, and this call read
\* that file.
RootIncludes ==
    /\ call.root = "A"
    /\ files["/A"].t = "map"
    /\ HasKey(files["/A"], "inc")
    /\ LET inc == Get(files["/A"], "inc")
       IN  /\ inc.t = "inclusion" /\ ~inc.merge
           /\ ~HasTagged(files[pathResolve(inc.path)])
           /\ parseCount[pathResolve(inc.path)] > 0

\* The root file is a Reference with params to a file that is such an Inclusion.
ReferencedIncludes ==
    /\ call.root = "A"
    /\ files["/A"].t = "reference"
    /\ LET inc == files[pathResolve(files["/A"].path)]
       IN  /\ inc.t = "inclusion" /\ ~inc.merge
           /\ ~HasTagged(files[pathResolve(inc.path)])
           /\ parseCount[pathResolve(inc.path)] > 0

\* The root file is an Inclusion and lies on a cycle.
InclusionOnCycle ==
    /\ call.root = "A"
    /\ files["/A"].t = "inclusion"
    /\ "/A" \in ReachFrom(Succ("/A"))

C24_OneReadAtATime == Cardinality(Pending(main)) <= 1

RECURSIVE InProgress(_)
\* The files a job tree is resolving: resolveFile was entered for them and has
\* neither returned nor thrown.
InProgress(job) ==
    IF job.j = "parseFile" THEN {job.absolutePath}
    ELSE IF job.j = "resolveFile" THEN {job.absolutePath} \cup InProgress(job.body)
    ELSE IF job.j = "await" THEN InProgress(job.inner)
    ELSE IF job.j = "entries" THEN InProgress(job.cur)
    ELSE IF job.j = "Promise.all"
    THEN UNION {InProgress(job.items[i]) : i \in 1 .. Len(job.items)}
    ELSE {}

\* C25: the cache holds an entry for a path only after a resolution of that
\* path completed successfully, and the entry is a fully resolved tree: a file
\* that cannot resolve (it is unreadable, lies on a cycle, or reaches such a
\* file) has no entry, and neither has a file the call is still resolving.
C25_CacheHoldsCompleted ==
    /\ \A p \in DOMAIN cache : ~HasTagged(cache[p]) /\ AllReadable(p) /\ Acyclic(p)
    /\ InProgress(main) \cap DOMAIN cache = {}

\* How many entries of a list of results are about a source file.
Occurrences(entries, sourceFile) ==
    Cardinality({k \in 1 .. Len(entries) : entries[k].source = sourceFile})

\* C26: when generate returns, the files it processed are the YAML files of
\* the workflows directory, each of them is in exactly one of result.success
\* and result.errors, nothing else is, and the counters agree with the lists:
\* successCount + errorCount = totalFiles, successCount = success.length,
\* errorCount = errors.length.
C26_EveryFileOnce ==
    gen.pc = "returned" =>
        LET result == gen.result
        IN  /\ gen.workflowFiles = findWorkflowFiles(fs)
            /\ \A f \in Range(gen.workflowFiles) :
                   Occurrences(result.success, f) + Occurrences(result.errors, f) = 1
            /\ \A k \in 1 .. Len(result.success) :
                   result.success[k].source \in Range(gen.workflowFiles)
            /\ \A k \in 1 .. Len(result.errors) :
                   result.errors[k].source \in Range(gen.workflowFiles)
            /\ result.stats.totalFiles = Len(gen.workflowFiles)
            /\ result.stats.successCount + result.stats.errorCount = result.stats.totalFiles
            /\ result.stats.successCount = Len(result.success)
            /\ result.stats.errorCount = Len(result.errors)

\* generate returned after three files of which the first failed and a later
\* one succeeded.
C26_Witness ==
    /\ gen.pc = "returned"
    /\ Len(gen.workflowFiles) = 3
    /\ Len(gen.result.errors) >= 1
    /\ gen.result.errors[1].source = gen.workflowFiles[1]
    /\ Len(gen.result.success) >= 1

\* The source file resolves, and the resolved workflow lacks no required field.
Resolvable(sourceFile) ==
    /\ fs.resolves[sourceFile].j = "val"
    /\ MissingFields(fs.resolves[sourceFile].v) = {}

\* C27: an output file is written only after the resolution and the
\* validation of its workflow succeeded: what generate wrote to an output path
\* is the resolved tree of a valid workflow whose output path it is; the
\* steps after validation are reached by valid workflows only; and no step
\* taken for a workflow that fails resolution or validation changes an output
\* file.
C27_WriteAfterValidation ==
    /\ [](\A o \in Outputs :
              fs.outputs[o].source \in Sources
                  => /\ Resolvable(fs.outputs[o].source)
                     /\ o = getOutputPath(fs.outputs[o].source)
                     /\ fs.outputs[o].workflow = fs.resolves[fs.outputs[o].source].v)
    /\ [](gen.at \in {"mkdir", "writeFile", "getMetadata"} => Resolvable(SourceFile))
    /\ [][(gen.pc = "processWorkflow" /\ ~Resolvable(SourceFile))
              => fs'.outputs = fs.outputs]_vars

\* generate returned: it wrote the output of a valid workflow, and left the
\* output of an invalid one, which it processed afterwards, as the earlier
\* build had written it.
C27_Witness ==
    /\ gen.pc = "returned"
    /\ gen.workflowFiles = <<"workflows/release.yml", "workflows/ci.yml">>
    /\ ~Resolvable("workflows/ci.yml")
    /\ fs.outputs["out/workflows/release.yml"].source = "workflows/release.yml"
    /\ fs.outputs["out/workflows/ci.yml"] = Earlier

\* ------------------------------------------------------------------ C28
\* The result executeAct decides from the first of close, error and timeout.
Decided(event) ==
    CASE event = "timeout" -> [success |-> FALSE, exitCode |-> 124]
      [] event = "error" -> [success |-> FALSE, exitCode |-> 1]
      [] event = "close 0" -> [success |-> TRUE, exitCode |-> 0]
      [] event = "close 1" -> [success |-> FALSE, exitCode |-> 1]
      [] event = "close null" -> [success |-> FALSE, exitCode |-> 0]

\* The calls of run, which awaits executeAct.
ExecuteActCalls == {r \in RunIds : runner.calls[r].method = "run"}

C30_EveryEventRebuilt ==
    /\ [](watcher.running <= 1)
    /\ \A filePath \in WatchedFiles :
          (filePath \in watcher.unbuilt) ~>
              (filePath \notin watcher.unbuilt \/ watcher.pc = "exited")

====
